---- MODULE Spec2Model ----
(***************************************************************************)
(* A model of extract_article_metadata.py: the edition inferencer, the     *)
(* metadata extractor, the header formatter and the command-line driver.   *)
(*                                                                         *)
(* Python strings are sequences of one-character strings, so that the      *)
(* regular expressions, int(), str(), lower() and strip() of the source    *)
(* are computed character by character.                                    *)
(***************************************************************************)
EXTENDS Integers, Sequences, FiniteSets, TLC

VARIABLES
    pc,             \* position of the running call / of main()
    season, year,   \* arguments of infer_edition_number
    result,         \* what infer_edition_number returned
    url,            \* args.url
    creation_date,  \* args.creation_date / the creation_date argument
    today,          \* datetime.now().strftime("%Y-%m-%d")
    html,           \* the parsed document (response.text through BeautifulSoup)
    metadata,       \* the mapping extract_metadata builds
    raised,         \* the exception that left extract_metadata, "" for none
    header,         \* the string format_markdown_header returned
    stdout, stderr, \* what the run printed, in order
    exit_code,      \* the process's exit status, -1 while it runs
    gets            \* the number of requests.get calls issued

vars == <<pc, season, year, result, url, creation_date, today, html, metadata,
          raised, header, stdout, stderr, exit_code, gets>>

----------------------------------------------------------------------------
(* Bounds of the model *)

\* Longest string handed to infer_edition_number as its year.
MaxYearLen == 4

\* Most elements in a fetched document.
MaxNodes == 2

\* Most names in the authors list handed to format_markdown_header.
MaxAuthors == 2

----------------------------------------------------------------------------
(* Characters and the Python string primitives the source uses *)

UpperAlpha == <<"A", "B", "C", "D", "E", "F", "G", "H", "I", "J", "K", "L", "M",
                "N", "O", "P", "Q", "R", "S", "T", "U", "V", "W", "X", "Y", "Z">>
LowerAlpha == <<"a", "b", "c", "d", "e", "f", "g", "h", "i", "j", "k", "l", "m",
                "n", "o", "p", "q", "r", "s", "t", "u", "v", "w", "x", "y", "z">>
DigitChars == <<"0", "1", "2", "3", "4", "5", "6", "7", "8", "9">>

\* \d of the regular expressions, and the digits int() accepts.
IsDigit(c) == \E i \in 1..10 : DigitChars[i] = c

\* \s of the regular expressions; what str.strip() removes.
IsSpace(c) == c \in {" ", "\n", "\t"}

\* The lower-case form of one character (str.lower, re.IGNORECASE).
LowerChar(c) ==
    IF \E i \in 1..26 : UpperAlpha[i] = c
    THEN LowerAlpha[CHOOSE i \in 1..26 : UpperAlpha[i] = c]
    ELSE c

\* str.lower()
LowerStr(s) == [i \in 1..Len(s) |-> LowerChar(s[i])]

\* str.strip(): the string without its leading and trailing whitespace.
StripStr(s) ==
    LET keep == {i \in 1..Len(s) : ~IsSpace(s[i])}
    IN  IF keep = {} THEN <<>>
        ELSE SubSeq(s, CHOOSE i \in keep : \A j \in keep : i <= j,
                       CHOOSE i \in keep : \A j \in keep : i >= j)

\* str.isdigit()
IsDigitStr(s) == s # <<>> /\ \A i \in 1..Len(s) : IsDigit(s[i])

DigitVal(c) == (CHOOSE i \in 1..10 : DigitChars[i] = c) - 1

\* The value of a string of decimal digits.
RECURSIVE DecValue(_)
DecValue(s) ==
    IF s = <<>> THEN 0
    ELSE DecValue(SubSeq(s, 1, Len(s) - 1)) * 10 + DigitVal(s[Len(s)])

\* The decimal digits of a natural number.
RECURSIVE NatDigits(_)
NatDigits(n) ==
    IF n < 10 THEN <<DigitChars[n + 1]>>
    ELSE NatDigits(n \div 10) \o <<DigitChars[(n % 10) + 1]>>

\* str(n) of an integer.
IntToStr(n) == IF n < 0 THEN <<"-">> \o NatDigits(-n) ELSE NatDigits(n)

----------------------------------------------------------------------------
(* Python values: None, an int, a str.  t is the type, v the int's value,  *)
(* s the str's characters.                                                 *)

PyNone == [t |-> "None", v |-> 0, s |-> <<>>]
PyInt(n) == [t |-> "int", v |-> n, s |-> <<>>]
PyStr(chars) == [t |-> "str", v |-> 0, s |-> chars]
\* A raised exception that nothing caught.
PyRaise == [t |-> "raise", v |-> 0, s |-> <<>>]

\* Python truthiness: None, 0 and "" are false.
Truthy(x) ==
    CASE x.t = "None" -> FALSE
      [] x.t = "int"  -> x.v # 0
      [] x.t = "str"  -> x.s # <<>>

\* int(x): an int is itself; a str is stripped, may carry one sign, and must
\* then be decimal digits (ValueError otherwise); None is a TypeError.
\* ok is FALSE when int() raised.
py_int(x) ==
    CASE x.t = "int" -> [ok |-> TRUE, v |-> x.v]
      [] x.t = "str" ->
            LET st   == StripStr(x.s)
                sign == st # <<>> /\ st[1] \in {"-", "+"}
                body == IF sign THEN Tail(st) ELSE st
            IN  IF IsDigitStr(body)
                THEN [ok |-> TRUE,
                      v  |-> IF sign /\ st[1] = "-" THEN 0 - DecValue(body)
                             ELSE DecValue(body)]
                ELSE [ok |-> FALSE, v |-> 0]
      [] OTHER -> [ok |-> FALSE, v |-> 0]

----------------------------------------------------------------------------
(* infer_edition_number *)

base_year == 2025
base_winter_number == 79

Str_winter == <<"w", "i", "n", "t", "e", "r">>
Str_spring == <<"s", "p", "r", "i", "n", "g">>
Str_summer == <<"s", "u", "m", "m", "e", "r">>
Str_fall == <<"f", "a", "l", "l">>
Str_autumn == <<"a", "u", "t", "u", "m", "n">>

\* The season_offset dictionary: its keys, and the offset of each.
SeasonKeys == {Str_winter, Str_spring, Str_summer, Str_fall, Str_autumn}

season_offset(key) ==
    CASE key = Str_winter -> 0
      [] key = Str_spring -> 1
      [] key = Str_summer -> 2
      [] key = Str_fall   -> 3
      [] key = Str_autumn -> 3

\* The guard as it would be without its test of the season:
\* "if not year: return None".
InferGuardYearOnly(s, y) == ~Truthy(y)

\* The guard of the function: "if not season or not year: return None".
InferGuard(s, y) == ~Truthy(s) \/ ~Truthy(y)

\* What "try: year = int(year) / except (ValueError, TypeError)" yields when
\* int() raised: the function returns None.
InferIntFailed == PyNone

\* season_offset.get(season_lower), then the sum; None for an unknown season.
InferLookup(season_lower, y) ==
    IF season_lower \in SeasonKeys
    THEN PyInt(base_winter_number + ((y - base_year) * 4) + season_offset(season_lower))
    ELSE PyNone

infer_edition_number(s, y) ==
    IF InferGuard(s, y) THEN PyNone
    ELSE LET parsed == py_int(y)
         IN  IF ~parsed.ok THEN InferIntFailed
             ELSE IF s.t # "str" THEN PyRaise   \* season.lower() of a non-str
             ELSE InferLookup(LowerStr(s.s), parsed.v)

----------------------------------------------------------------------------
(* The calls of infer_edition_number: one call per behaviour, its arguments *)
(* drawn from the values the tests and extract_metadata hand it.            *)

\* All sequences over S of length at most n.
SeqsUpTo(S, n) == UNION {[1..k -> S] : k \in 0..n}

InferSeasonStrings == {
    <<>>,
    <<"W", "i", "n", "t", "e", "r">>,
    <<"w", "i", "n", "t", "e", "r">>,
    <<"W", "I", "N", "T", "E", "R">>,
    <<"S", "p", "r", "i", "n", "g">>,
    <<"s", "P", "r", "I", "n", "G">>,
    <<"S", "u", "m", "m", "e", "r">>,
    <<"F", "a", "l", "l">>,
    <<"F", "A", "L", "L">>,
    <<"A", "u", "t", "u", "m", "n">>,
    <<"a", "u", "t", "u", "m", "n">>,
    <<"I", "n", "v", "a", "l", "i", "d">>,
    <<"W", "i", "n">>,
    <<"W", "i", "n", "t", "e", "r", "s">>,
    <<" ", "F", "a", "l", "l">>}

InferSeasons == {PyNone} \cup {PyStr(s) : s \in InferSeasonStrings}

InferIntYears == {0 - 1, 0, 1, 1999, 2005, 2006, 2024, 2025, 2026, 2030}

YearAlphabet == {"0", "2", "5", "-", " ", "x"}

InferYears ==
    {PyNone} \cup {PyInt(n) : n \in InferIntYears}
             \cup {PyStr(s) : s \in SeqsUpTo(YearAlphabet, MaxYearLen)}

\* The values the variables of the other components hold while one component
\* is exercised alone.
IdleInfer == season = PyNone /\ year = PyNone /\ result = PyNone
IdleRun ==
    /\ url = <<>> /\ html = <<>> /\ raised = ""
    /\ stdout = <<>> /\ stderr = <<>> /\ exit_code = 0 - 1 /\ gets = 0
IdleFormat == creation_date = PyNone /\ today = <<>> /\ header = <<>>

InitInfer ==
    /\ pc = "infer_call"
    /\ season \in InferSeasons
    /\ year \in InferYears
    /\ result = PyNone
    /\ metadata = <<>>
    /\ IdleRun /\ IdleFormat

\* The call returns (or raises: result is then PyRaise).
Infer ==
    /\ pc = "infer_call"
    /\ result' = infer_edition_number(season, year)
    /\ pc' = "infer_done"
    /\ UNCHANGED <<season, year, url, creation_date, today, html, metadata,
                   raised, header, stdout, stderr, exit_code, gets>>

NextInfer == Infer

SpecInfer == InitInfer /\ [][NextInfer]_vars

----------------------------------------------------------------------------
(* The regular expressions of extract_metadata, each computed on the       *)
(* characters of the string it is applied to.                              *)

\* The least element of a non-empty set of numbers.
MinOf(S) == CHOOSE i \in S : \A j \in S : i <= j

\* The first index at or after i whose character is not whitespace (\s*).
SkipSpaces(s, i) ==
    IF i > Len(s) THEN i
    ELSE MinOf({k \in i..(Len(s) + 1) : k = Len(s) + 1 \/ ~IsSpace(s[k])})

\* The first index at or after i whose character is not a digit (\d+).
SkipDigits(s, i) ==
    IF i > Len(s) THEN i
    ELSE MinOf({k \in i..(Len(s) + 1) : k = Len(s) + 1 \/ ~IsDigit(s[k])})

\* w occurs in s at index i; with re.IGNORECASE (w given in lower case).
StartsAt(s, i, w) ==
    i >= 1 /\ i + Len(w) - 1 <= Len(s) /\ \A k \in 1..Len(w) : s[i + k - 1] = w[k]
StartsAtI(s, i, w) ==
    i >= 1 /\ i + Len(w) - 1 <= Len(s)
           /\ \A k \in 1..Len(w) : LowerChar(s[i + k - 1]) = w[k]

\* w occurs somewhere in s, in any letter case.
ContainsI(s, w) == \E i \in 1..Len(s) : StartsAtI(s, i, w)

Str_No == <<"N", "o", ".">>

\* r"No\.\s*\d+" matches at index i.
IssueMentionAt(s, i) ==
    /\ StartsAt(s, i, Str_No)
    /\ LET j == SkipSpaces(s, i + 3) IN j <= Len(s) /\ IsDigit(s[j])

\* re.compile(r"No\.\s*\d+").search(s)
HasIssueMention(s) == \E i \in 1..Len(s) : IssueMentionAt(s, i)

\* r"No\.\s*(\d+)\s*\(([^)]+)\)" tried at index i: whether it matches, and
\* the two groups.
IssueMatchAt(s, i) ==
    LET j == SkipSpaces(s, i + 3)
        k == SkipDigits(s, j)
        m == SkipSpaces(s, k)
        closing == {r \in (m + 1)..Len(s) : s[r] = ")"}
        r == MinOf(closing)
        ok == /\ StartsAt(s, i, Str_No)
              /\ k > j
              /\ m <= Len(s) /\ s[m] = "("
              /\ closing # {} /\ r > m + 1
    IN  IF ok THEN [ok |-> TRUE, g1 |-> SubSeq(s, j, k - 1), g2 |-> SubSeq(s, m + 1, r - 1)]
        ELSE [ok |-> FALSE, g1 |-> <<>>, g2 |-> <<>>]

NoMatch == [ok |-> FALSE, g1 |-> <<>>, g2 |-> <<>>]

\* re.search(r"No\.\s*(\d+)\s*\(([^)]+)\)", s): the leftmost match.
IssueSearch(s) ==
    LET at == {i \in 1..Len(s) : IssueMatchAt(s, i).ok}
    IN  IF at = {} THEN NoMatch ELSE IssueMatchAt(s, MinOf(at))

\* (Winter|Spring|Summer|Fall|Autumn), in the order of the alternation.
SeasonWords == <<Str_winter, Str_spring, Str_summer, Str_fall, Str_autumn>>

\* The length of the season word matching at index i under re.IGNORECASE,
\* 0 when none does.
SeasonWordLenAt(s, i) ==
    LET which == {n \in 1..Len(SeasonWords) : StartsAtI(s, i, SeasonWords[n])}
    IN  IF which = {} THEN 0 ELSE Len(SeasonWords[MinOf(which)])

\* Four digits at index i (\d{4}).
FourDigitsAt(s, i) == i + 3 <= Len(s) /\ \A d \in i..(i + 3) : IsDigit(s[d])

\* season_patterns[0], r"(Winter|Spring|Summer|Fall|Autumn)\s+(\d{4})", at i.
SeasonYearAt(s, i) ==
    LET n == SeasonWordLenAt(s, i)
        k == SkipSpaces(s, i + n)
    IN  IF n > 0 /\ k > i + n /\ FourDigitsAt(s, k)
        THEN [ok |-> TRUE, g1 |-> SubSeq(s, i, i + n - 1), g2 |-> SubSeq(s, k, k + 3)]
        ELSE NoMatch

\* season_patterns[1], r"(\d{4})\s+(Winter|Spring|Summer|Fall|Autumn)", at i.
YearSeasonAt(s, i) ==
    LET k == SkipSpaces(s, i + 4)
        n == SeasonWordLenAt(s, k)
    IN  IF FourDigitsAt(s, i) /\ k > i + 4 /\ n > 0
        THEN [ok |-> TRUE, g1 |-> SubSeq(s, i, i + 3), g2 |-> SubSeq(s, k, k + n - 1)]
        ELSE NoMatch

\* The number of season patterns, and pattern p tried at index i.
NumSeasonPatterns == 2
SeasonPatternAt(p, s, i) == IF p = 1 THEN SeasonYearAt(s, i) ELSE YearSeasonAt(s, i)

\* re.search(pattern, s, re.IGNORECASE): the leftmost match of pattern p.
SeasonSearch(p, s) ==
    LET at == {i \in 1..Len(s) : SeasonPatternAt(p, s, i).ok}
    IN  IF at = {} THEN NoMatch ELSE SeasonPatternAt(p, s, MinOf(at))

Str_by == <<"b", "y">>
Str_author == <<"a", "u", "t", "h", "o", "r">>
Str_byline == <<"b", "y", "l", "i", "n", "e">>

\* re.sub(r"^(by|author:?)\s*", "", s, flags=re.I)
StripAuthorPrefix(s) ==
    LET after == IF StartsAtI(s, 1, Str_by) THEN 3
                 ELSE IF StartsAtI(s, 1, Str_author)
                      THEN (IF Len(s) >= 7 /\ s[7] = ":" THEN 8 ELSE 7)
                      ELSE 0
    IN  IF after = 0 THEN s ELSE SubSeq(s, SkipSpaces(s, after), Len(s))

\* re.sub(r"\s+", " ", s): every run of whitespace becomes one space.
RECURSIVE CollapseSpaces(_)
CollapseSpaces(s) ==
    IF s = <<>> THEN <<>>
    ELSE IF IsSpace(s[1])
         THEN <<" ">> \o CollapseSpaces(SubSeq(s, SkipSpaces(s, 1), Len(s)))
         ELSE <<s[1]>> \o CollapseSpaces(Tail(s))

\* re.compile(r"author|byline", re.I).search(class)
ClassMatches(class) == ContainsI(class, Str_author) \/ ContainsI(class, Str_byline)

----------------------------------------------------------------------------
(* The document.  BeautifulSoup's tree is kept as its elements in document *)
(* order; each element has a tag, a type and a class attribute and at most *)
(* one string child (text; <<>> for none).  For a script element, json is   *)
(* what json.loads makes of that string.                                   *)

\* JSON scalars as json.loads returns them: a key that is absent, null, a
\* string, a (non-zero) number.
JAbsent == [k |-> "absent", s |-> <<>>]
JNull == [k |-> "null", s |-> <<>>]
JStr(chars) == [k |-> "str", s |-> chars]
JNum == [k |-> "num", s |-> <<>>]

\* One entry of an "author" list: an object with its "name", or a scalar.
AuthorObj(name) == [k |-> "dict", name |-> name]
AuthorScalar(kind) == [k |-> kind, name |-> JAbsent]

\* The "author" value: absent, null, a string, one object, or a list.
AuthorAbsent == [k |-> "absent", s |-> <<>>, items |-> <<>>]
AuthorNull == [k |-> "null", s |-> <<>>, items |-> <<>>]
AuthorString(chars) == [k |-> "str", s |-> chars, items |-> <<>>]
AuthorDict(name) == [k |-> "dict", s |-> <<>>, items |-> <<AuthorObj(name)>>]
AuthorList(items) == [k |-> "list", s |-> <<>>, items |-> items]

\* json.loads raised JSONDecodeError; returned something that is no object;
\* returned an object.
JsonInvalid ==
    [kind |-> "invalid", type |-> "", headline |-> JAbsent, author |-> AuthorAbsent,
     datePublished |-> JAbsent, publisher |-> JAbsent]
JsonNotDict ==
    [kind |-> "other", type |-> "", headline |-> JAbsent, author |-> AuthorAbsent,
     datePublished |-> JAbsent, publisher |-> JAbsent]
JsonDict(type, headline, author, datePublished, publisher) ==
    [kind |-> "dict", type |-> type, headline |-> headline, author |-> author,
     datePublished |-> datePublished, publisher |-> publisher]

Element(tag, class, text) ==
    [tag |-> tag, type |-> "", class |-> class, text |-> text, json |-> JsonInvalid]
ScriptElement(type, text, json) ==
    [tag |-> "script", type |-> type, class |-> <<>>, text |-> text, json |-> json]

----------------------------------------------------------------------------
(* extract_metadata *)

\* dict operations on the metadata mapping.
EmptyMap == <<>>
Put(m, key, value) == [x \in (DOMAIN m) \cup {key} |-> IF x = key THEN value ELSE m[x]]
\* bool(m.get(key)): the key is there and its value is not empty.
HasValue(m, key) == key \in DOMAIN m /\ m[key] # <<>>

Str_TheNewAtlantis ==
    <<"T", "h", "e", " ", "N", "e", "w", " ", "A", "t", "l", "a", "n", "t", "i", "s">>

\* soup.find_all("script", type="application/ld+json")
json_ld_scripts(doc) ==
    SelectSeq(doc, LAMBDA e : e.tag = "script" /\ e.type = "application/ld+json")

\* The list comprehension over the authors: the exception it raises ("" for
\* none) and the names it collects.
RECURSIVE AuthorNames(_)
AuthorNames(items) ==
    IF items = <<>> THEN [raised |-> "", names |-> <<>>]
    ELSE LET a == items[1]
             rest == AuthorNames(Tail(items))
         IN  IF a.k # "dict" THEN [raised |-> "AttributeError", names |-> <<>>]
             ELSE IF a.name.k \in {"absent", "null"} \/ (a.name.k = "str" /\ a.name.s = <<>>)
                  THEN rest
             ELSE IF a.name.k # "str" THEN [raised |-> "AttributeError", names |-> <<>>]
             ELSE IF rest.raised # "" THEN rest
             ELSE [raised |-> "",
                   names |-> <<CollapseSpaces(StripStr(a.name.s))>> \o rest.names]

\* What happens when json.loads is handed script.string = None, the string
\* of a script element without content: the TypeError is not among the
\* exceptions the loop catches.
EmptyScriptOutcome(md) == [raised |-> "TypeError", md |-> md]

\* The body of "if isinstance(data, dict) and data.get('@type') == 'Article'".
ArticleBlock(data, md) ==
    IF data.headline.k \in {"null", "num"}
    THEN [raised |-> "AttributeError", md |-> md]
    ELSE
    LET md1 == Put(md, "title",
                   IF data.headline.k = "absent" THEN <<>> ELSE StripStr(data.headline.s))
        au  == data.author
        \* "if authors:" after a single dict became a one-element list
        truthy == \/ au.k \in {"dict", "num"}
                  \/ au.k = "str" /\ au.s # <<>>
                  \/ au.k = "list" /\ au.items # <<>>
        names == AuthorNames(au.items)
        dp  == data.datePublished
    IN  IF truthy /\ au.k = "str" THEN [raised |-> "AttributeError", md |-> md1]
        ELSE IF truthy /\ au.k = "num" THEN [raised |-> "TypeError", md |-> md1]
        ELSE IF truthy /\ names.raised # "" THEN [raised |-> names.raised, md |-> md1]
        ELSE LET md2 == IF truthy THEN Put(md1, "authors", names.names) ELSE md1
             IN  [raised |-> "",
                  md |-> IF dp.k = "str" /\ dp.s # <<>>
                         THEN Put(md2, "date_published", dp.s) ELSE md2]

\* "for script in json_ld_scripts", from the i-th script on.
RECURSIVE JsonLdLoop(_, _, _)
JsonLdLoop(scripts, i, md) ==
    IF i > Len(scripts) THEN [raised |-> "", md |-> md]
    ELSE LET script == scripts[i]
         IN  IF script.text = <<>> THEN EmptyScriptOutcome(md)
             ELSE IF script.json.kind = "invalid" THEN JsonLdLoop(scripts, i + 1, md)
             ELSE IF script.json.kind = "dict" /\ script.json.type = "Article"
                  THEN ArticleBlock(script.json, md)
             ELSE JsonLdLoop(scripts, i + 1, md)

\* soup.find(tag): the first element with that tag, 0 for None.
FindTag(doc, tag) ==
    LET at == {i \in 1..Len(doc) : doc[i].tag = tag}
    IN  IF at = {} THEN 0 ELSE MinOf(at)

\* The fallback as it would be without its test of the title found so far:
\* the heading, or else the title element, always has the last word.
TitleFallbackAlways(doc, md) ==
    LET h1 == FindTag(doc, "h1")
        title_tag == IF h1 # 0 THEN h1 ELSE FindTag(doc, "title")
    IN  IF title_tag = 0 THEN md
        ELSE Put(md, "title", StripStr(doc[title_tag].text))

\* "Fallback to HTML parsing if JSON-LD doesn't work".
TitleFallback(doc, md) ==
    IF HasValue(md, "title") THEN md
    ELSE LET h1 == FindTag(doc, "h1")
             title_tag == IF h1 # 0 THEN h1 ELSE FindTag(doc, "title")
         IN  IF title_tag = 0 THEN md
             ELSE Put(md, "title", StripStr(doc[title_tag].text))

\* "Extract author from byline if not found in JSON-LD".
BylineFallback(doc, md) ==
    IF HasValue(md, "authors") THEN md
    ELSE LET at == {i \in 1..Len(doc) : ClassMatches(doc[i].class)}
         IN  IF at = {} THEN md
             ELSE Put(md, "authors",
                      <<CollapseSpaces(StripAuthorPrefix(StripStr(doc[MinOf(at)].text)))>>)

\* The strings soup.find(string=...) goes through, in document order: the
\* string child of every element that has one, script elements included.
StringIndexes(doc) == {i \in 1..Len(doc) : doc[i].text # <<>>}

\* soup.find(string=re.compile(r"No\.\s*\d+")): the first string with a
\* match, 0 for None.
FindIssueInfo(doc) ==
    LET at == {i \in StringIndexes(doc) : HasIssueMention(doc[i].text)}
    IN  IF at = {} THEN 0 ELSE MinOf(at)

\* "Extract issue information".
ExplicitIssue(doc, md) ==
    LET issue_info == FindIssueInfo(doc)
        issue_match == IssueSearch(doc[issue_info].text)
    IN  IF issue_info # 0 /\ issue_match.ok
        THEN Put(Put(md, "issue_number", issue_match.g1), "issue_season", issue_match.g2)
        ELSE md

\* soup.find(string=re.compile(pattern, re.IGNORECASE)) for season pattern p.
FindSeasonMatch(doc, p) ==
    LET at == {i \in StringIndexes(doc) : SeasonSearch(p, doc[i].text).ok}
    IN  IF at = {} THEN 0 ELSE MinOf(at)

\* The body of "if match:" for a match of a season pattern.
RecordInferred(match, md) ==
    LET digit_first == IsDigitStr(match.g1)
        yr == IF digit_first THEN match.g1 ELSE match.g2
        se == IF digit_first THEN match.g2 ELSE match.g1
        inferred_number == infer_edition_number(PyStr(se), PyInt(py_int(PyStr(yr)).v))
    IN  IF Truthy(inferred_number)
        THEN Put(Put(md, "issue_number", IntToStr(inferred_number.v)),
                 "issue_season", se \o <<" ">> \o yr)
        ELSE md

\* "for pattern in season_patterns", from pattern p on.
RECURSIVE SeasonLoop(_, _, _)
SeasonLoop(doc, p, md) ==
    IF p > NumSeasonPatterns THEN md
    ELSE LET season_match == FindSeasonMatch(doc, p)
         IN  IF season_match = 0 THEN SeasonLoop(doc, p + 1, md)
             ELSE RecordInferred(SeasonSearch(p, doc[season_match].text), md)

\* "If no explicit issue number found, look for season-only patterns".
InferredIssue(doc, md) ==
    IF HasValue(md, "issue_number") THEN md ELSE SeasonLoop(doc, 1, md)

\* The publication as it would be if it were read from the structured data:
\* the publisher of the first Article block, the literal without one.
SetPublicationFromData(doc, md) ==
    LET named == {i \in 1..Len(doc) : /\ doc[i].json.kind = "dict"
                                      /\ doc[i].json.type = "Article"
                                      /\ doc[i].json.publisher.k = "str"}
    IN  Put(md, "publication",
            IF named = {} THEN Str_TheNewAtlantis ELSE doc[MinOf(named)].json.publisher.s)

\* "Set publication name".
SetPublication(doc, md) == Put(md, "publication", Str_TheNewAtlantis)

\* extract_metadata(html_content): the exception that leaves it ("" when it
\* returns) and the mapping it returns.
extract_metadata(doc) ==
    LET ld == JsonLdLoop(json_ld_scripts(doc), 1, EmptyMap)
    IN  IF ld.raised # "" THEN [raised |-> ld.raised, md |-> EmptyMap]
        ELSE [raised |-> "",
              md |-> SetPublication(doc,
                        InferredIssue(doc,
                           ExplicitIssue(doc,
                              BylineFallback(doc,
                                 TitleFallback(doc, ld.md)))))]

----------------------------------------------------------------------------
(* format_markdown_header *)

Str_UnknownTitle == <<"U", "n", "k", "n", "o", "w", "n", " ", "T", "i", "t", "l", "e">>
Str_UnknownAuthor == <<"U", "n", "k", "n", "o", "w", "n", " ", "A", "u", "t", "h", "o", "r">>
Str_Dashes == <<"-", "-", "-">>
Str_TitleKey == <<"t", "i", "t", "l", "e", ":", " ">>
Str_AuthorKey == <<"a", "u", "t", "h", "o", "r", ":">>
Str_AuthorItem == <<" ", " ", "-", " ">>
Str_FormatLine == <<"f", "o", "r", "m", "a", "t", ":", " ", "j", "o", "u", "r", "n", "a", "l", " ", "a", "r", "t", "i", "c", "l", "e">>
Str_CreationDateKey == <<"c", "r", "e", "a", "t", "i", "o", "n", "-", "d", "a", "t", "e", ":", " ">>
Str_PublicationKey == <<"p", "u", "b", "l", "i", "c", "a", "t", "i", "o", "n", ":", " ">>
Str_EditionKey == <<"p", "e", "r", "i", "o", "d", "i", "c", "a", "l", "-", "e", "d", "i", "t", "i", "o", "n", ":", " ">>
Str_NoPrefix == <<"N", "o", ".", " ">>
Str_Notes == <<"#", "#", " ", "N", "o", "t", "e", "s">>

\* "\n".join(lines)
RECURSIVE JoinLines(_)
JoinLines(lines) ==
    IF lines = <<>> THEN <<>>
    ELSE IF Len(lines) = 1 THEN lines[1]
    ELSE lines[1] \o <<"\n">> \o JoinLines(Tail(lines))

\* metadata.get(key, default)
GetOr(m, key, default) == IF key \in DOMAIN m THEN m[key] ELSE default

\* metadata.get("title", "Unknown Title")
HeaderTitle(md) == GetOr(md, "title", Str_UnknownTitle)

\* The authors as they would be with an empty default:
\* metadata.get("authors", []).
HeaderAuthorsEmptyDefault(md) == GetOr(md, "authors", <<>>)

\* metadata.get("authors", ["Unknown Author"])
HeaderAuthors(md) == GetOr(md, "authors", <<Str_UnknownAuthor>>)

\* The edition as it would be if the issue number alone decided it.
periodical_edition_number_only(md) ==
    IF HasValue(md, "issue_number")
    THEN Str_NoPrefix \o md["issue_number"] \o <<" ", "(">>
         \o GetOr(md, "issue_season", <<>>) \o <<")">>
    ELSE <<>>

\* "Format periodical edition": the text of the edition, "" for none.
periodical_edition(md) ==
    IF HasValue(md, "issue_number") /\ HasValue(md, "issue_season")
    THEN Str_NoPrefix \o md["issue_number"] \o <<" ", "(">> \o md["issue_season"] \o <<")">>
    ELSE <<>>

\* The list yaml_lines as the function builds it; date is the creation date
\* in use.
yaml_lines(md, date) ==
    <<Str_Dashes, Str_TitleKey \o HeaderTitle(md), Str_AuthorKey>>
    \o [i \in 1..Len(HeaderAuthors(md)) |-> Str_AuthorItem \o HeaderAuthors(md)[i]]
    \o <<Str_FormatLine,
         Str_CreationDateKey \o date,
         Str_PublicationKey \o GetOr(md, "publication", Str_TheNewAtlantis)>>
    \o (IF periodical_edition(md) # <<>>
        THEN <<Str_EditionKey \o periodical_edition(md)>> ELSE <<>>)
    \o <<Str_Dashes, <<>>, Str_Notes>>

\* format_markdown_header(metadata, creation_date): creation_date None means
\* the clock's date.
format_markdown_header(md, date, clock) ==
    JoinLines(yaml_lines(md, IF date.t = "None" THEN clock ELSE date.s))

----------------------------------------------------------------------------
(* The calls of format_markdown_header on its own: the mapping is any      *)
(* mapping of the data model, each field absent or one of a few values.    *)

Absent == [has |-> FALSE, v |-> <<>>]
Given(value) == [has |-> TRUE, v |-> value]
PutOpt(m, key, opt) == IF opt.has THEN Put(m, key, opt.v) ELSE m

Str_Winter2025 == <<"W", "i", "n", "t", "e", "r", " ", "2", "0", "2", "5">>
Str_2025_06_19 == <<"2", "0", "2", "5", "-", "0", "6", "-", "1", "9">>
Str_2026_11_01 == <<"2", "0", "2", "6", "-", "1", "1", "-", "0", "1">>

FormatTitles == {Absent, Given(<<>>), Given(<<"T", "i">>), Given(<<"A", "\n", "b">>)}
FormatAuthorNames == {<<"A", "l">>, <<"B", "o">>, <<>>}
FormatAuthors == {Absent} \cup {Given(a) : a \in SeqsUpTo(FormatAuthorNames, MaxAuthors)}
FormatPublications == {Absent, Given(Str_TheNewAtlantis), Given(<<"O", "t">>)}
FormatIssueNumbers == {Absent, Given(<<>>), Given(<<"7", "9">>)}
FormatIssueSeasons ==
    {Absent, Given(<<>>), Given(Str_Winter2025), Given(<<"F", "a", "l", "l", "\n", "2", "4">>)}

FormatMetadatas ==
    {PutOpt(PutOpt(PutOpt(PutOpt(PutOpt(EmptyMap, "title", ti), "authors", au),
                          "publication", pu), "issue_number", nu), "issue_season", se) :
        ti \in FormatTitles, au \in FormatAuthors, pu \in FormatPublications,
        nu \in FormatIssueNumbers, se \in FormatIssueSeasons}

CreationDates == {PyNone, PyStr(Str_2025_06_19), PyStr(<<>>)}

InitFormat ==
    /\ pc = "format_call"
    /\ metadata \in FormatMetadatas
    /\ creation_date \in CreationDates
    /\ today = Str_2026_11_01
    /\ header = <<>>
    /\ IdleInfer /\ IdleRun

FormatCall ==
    /\ pc = "format_call"
    /\ header' = format_markdown_header(metadata, creation_date, today)
    /\ pc' = "format_done"
    /\ UNCHANGED <<season, year, result, url, creation_date, today, html, metadata,
                   raised, stdout, stderr, exit_code, gets>>

NextFormat == FormatCall

SpecFormat == InitFormat /\ [][NextFormat]_vars

----------------------------------------------------------------------------
(* main(): one run of the command-line tool *)

Str_Domain == <<"t", "h", "e", "n", "e", "w", "a", "t", "l", "a", "n", "t", "i", "s", ".", "c", "o", "m">>

Urls == {
    <<"h", "t", "t", "p", "s", ":", "/", "/", "w", "w", "w", ".", "t", "h", "e", "n", "e", "w", "a", "t", "l", "a", "n", "t", "i", "s", ".", "c", "o", "m", "/", "a">>,
    <<"h", "t", "t", "p", "s", ":", "/", "/", "e", "x", "a", "m", "p", "l", "e", ".", "c", "o", "m", "/", "a">>,
    <<"t", "h", "e", "n", "e", "w", "a", "t", "l", "a", "n", "t", "i", "s", ".", "c", "o", "m", "/", "a">>,
    <<"h", "t", "t", "p", "s", ":", "/", "/", "t", "h", "e", "n", "e", "w", "a", "t", "l", "a", "n", "t", "i", "s", ".", "c", "o", "m", "@", "e", ".", "c", "o", "m", "/", "a">>}

\* The first index at or after i where s has one of "/", "?", "#", or
\* Len(s) + 1.
EndOfNetloc(s, i) ==
    MinOf({k \in i..(Len(s) + 1) : k = Len(s) + 1 \/ s[k] \in {"/", "?", "#"}})

\* A letter of a URL scheme.
IsLetter(c) == \E n \in 1..26 : LowerAlpha[n] = LowerChar(c)

\* urlparse(url).netloc: what follows "//" after the scheme, "" when the URL
\* has no "//" there.
Netloc(u) ==
    LET colon == {i \in 2..Len(u) : u[i] = ":" /\ \A k \in 1..(i - 1) : IsLetter(u[k])}
        start == IF colon = {} THEN 1 ELSE MinOf(colon) + 1
    IN  IF StartsAt(u, start, <<"/", "/">>)
        THEN SubSeq(u, start + 2, EndOfNetloc(u, start + 2) - 1)
        ELSE <<>>

\* "not parsed_url.netloc or 'thenewatlantis.com' not in parsed_url.netloc"
UrlLooksForeign(u) ==
    Netloc(u) = <<>> \/ ~(\E i \in 1..Len(Netloc(u)) : StartsAt(Netloc(u), i, Str_Domain))

\* The elements a fetched document is made of.
LdJson == "application/ld+json"
Str_Ti == <<"T", "i">>
Str_Al == <<"A", "l">>

ScriptNodes == {
    \* <script type="application/ld+json"></script>
    ScriptElement(LdJson, <<>>, JsonInvalid),
    \* not JSON
    ScriptElement(LdJson, <<"{", "x">>, JsonInvalid),
    \* not JSON, and its text mentions an issue
    ScriptElement(LdJson, <<"{", "N", "o", ".", " ", "5">>, JsonInvalid),
    \* not JSON, and its text mentions a season and a year
    ScriptElement(LdJson, <<"{", "F", "a", "l", "l", " ", "2", "0", "2", "4">>, JsonInvalid),
    \* an Article with a headline, two authors, a date and a publisher
    ScriptElement(LdJson, <<"{", "T", "i", " ", "A", "l", " ", " ", "B", "o", " ", "C", "y", " ", "O", "t", "}">>,
        JsonDict("Article", JStr(Str_Ti),
                 AuthorList(<<AuthorObj(JStr(<<"A", "l", " ", " ", "B", "o">>)), AuthorObj(JStr(<<"C", "y">>))>>),
                 JStr(<<"2", "0", "2", "5">>), JStr(<<"O", "t">>))),
    \* an Article with one author object
    ScriptElement(LdJson, <<"{", "T", "i", " ", "A", "l", "}">>,
        JsonDict("Article", JStr(Str_Ti), AuthorDict(JStr(Str_Al)), JAbsent, JAbsent)),
    \* {"@type": "Article"}
    ScriptElement(LdJson, <<"{", "}">>,
        JsonDict("Article", JAbsent, AuthorAbsent, JAbsent, JAbsent)),
    \* an Article whose headline is null
    ScriptElement(LdJson, <<"{", "}">>,
        JsonDict("Article", JNull, AuthorAbsent, JAbsent, JAbsent)),
    \* an Article whose author is a plain string
    ScriptElement(LdJson, <<"{", "T", "i", " ", "A", "l", "}">>,
        JsonDict("Article", JStr(Str_Ti), AuthorString(Str_Al), JAbsent, JAbsent)),
    \* an Article whose author list holds a string
    ScriptElement(LdJson, <<"{", "T", "i", " ", "A", "l", "}">>,
        JsonDict("Article", JStr(Str_Ti), AuthorList(<<AuthorScalar("str")>>), JAbsent, JAbsent)),
    \* an Article whose only author has no name
    ScriptElement(LdJson, <<"{", "T", "i", "}">>,
        JsonDict("Article", JStr(Str_Ti), AuthorList(<<AuthorObj(JAbsent)>>), JAbsent, JAbsent)),
    \* an object of another type
    ScriptElement(LdJson, <<"{", "T", "i", "}">>,
        JsonDict("WebPage", JStr(<<"W", "p">>), AuthorDict(JStr(<<"W", "a">>)), JAbsent, JAbsent)),
    \* valid JSON that is no object
    ScriptElement(LdJson, <<"[", "]">>, JsonNotDict),
    \* a script of another type
    ScriptElement("text/javascript", <<"x">>, JsonInvalid)}

TextNodes == {
    Element("h1", <<>>, <<"H", "d">>),
    Element("h1", <<>>, <<>>),
    Element("title", <<>>, <<"T", "t">>),
    Element("div", <<"b", "y", "l", "i", "n", "e">>, <<"B", "y", " ", "A", "l">>),
    Element("span", <<"A", "u", "t", "h", "o", "r", "-", "n", "a", "m", "e">>, <<" ", "B", "y", "r", "o", "n", " ", "\n", " ", "A", "l", " ">>),
    Element("p", <<>>, <<"N", "o", ".", " ", "8", "0", " ", "(", "F", "a", "l", "l", " ", "2", "0", "2", "4", ")">>),
    Element("p", <<>>, <<"S", "e", "e", " ", "N", "o", ".", " ", "1", "2">>),
    Element("p", <<>>, <<"W", "i", "n", "t", "e", "r", " ", "2", "0", "2", "5">>),
    Element("p", <<>>, <<"2", "0", "2", "4", " ", "S", "p", "r", "i", "n", "g">>),
    Element("p", <<>>, <<"S", "p", "r", "i", "n", "g", " ", "2", "0", "0", "5">>),
    Element("p", <<>>, <<"S", "u", "m", "m", "e", "r", " ", "1", "9", "9", "9">>),
    Element("p", <<>>, <<"x">>)}

Nodes == ScriptNodes \cup TextNodes

\* The documents a fetch can return.
Docs == SeqsUpTo(Nodes, MaxNodes)

Init ==
    /\ pc = "validate"
    /\ url \in Urls
    /\ creation_date \in {PyNone, PyStr(Str_2025_06_19)}
    /\ today = Str_2026_11_01
    /\ html = <<>> /\ metadata = EmptyMap /\ raised = "" /\ header = <<>>
    /\ stdout = <<>> /\ stderr = <<>> /\ exit_code = 0 - 1 /\ gets = 0
    /\ IdleInfer

\* "Validate URL": a warning on the error stream, and the run goes on.
Validate ==
    /\ pc = "validate"
    /\ stderr' = IF UrlLooksForeign(url) THEN Append(stderr, "Warning") ELSE stderr
    /\ pc' = "fetch"
    /\ UNCHANGED <<season, year, result, url, creation_date, today, html, metadata,
                   raised, header, stdout, exit_code, gets>>

\* fetch_article_content: requests.get answered with a 2xx status.  A URL
\* without a host is refused by requests before anything is sent.
FetchOk ==
    /\ pc = "fetch"
    /\ Netloc(url) # <<>>
    /\ gets' = gets + 1
    /\ html' \in Docs
    /\ pc' = "extract"
    /\ UNCHANGED <<season, year, result, url, creation_date, today, metadata,
                   raised, header, stdout, stderr, exit_code>>

\* The handler as it would be without its sys.exit(1): the message is
\* printed and the run goes on with no content.
FetchFailNoExit ==
    /\ pc = "fetch"
    /\ gets' = gets + 1
    /\ stderr' = Append(stderr, "Error fetching article")
    /\ pc' = "extract"
    /\ UNCHANGED <<season, year, result, url, creation_date, today, html, metadata,
                   raised, header, stdout, exit_code>>

\* fetch_article_content: requests.get or raise_for_status raised a
\* RequestException; the message is printed and sys.exit(1) ends the run.
FetchFail ==
    /\ pc = "fetch"
    /\ gets' = gets + 1
    /\ stderr' = Append(stderr, "Error fetching article")
    /\ exit_code' = 1
    /\ pc' = "exited"
    /\ UNCHANGED <<season, year, result, url, creation_date, today, html, metadata,
                   raised, header, stdout>>

\* metadata = extract_metadata(html_content); an exception that leaves it
\* ends the run with a traceback and status 1.
Extract ==
    /\ pc = "extract"
    /\ LET r == extract_metadata(html)
       IN  IF r.raised # ""
           THEN /\ raised' = r.raised
                /\ stderr' = Append(stderr, "Traceback")
                /\ exit_code' = 1
                /\ pc' = "exited"
                /\ UNCHANGED metadata
           ELSE /\ metadata' = r.md
                /\ pc' = "format"
                /\ UNCHANGED <<raised, stderr, exit_code>>
    /\ UNCHANGED <<season, year, result, url, creation_date, today, html,
                   header, stdout, gets>>

\* markdown_header = format_markdown_header(metadata, args.creation_date)
Format ==
    /\ pc = "format"
    /\ header' = format_markdown_header(metadata, creation_date, today)
    /\ pc' = "print"
    /\ UNCHANGED <<season, year, result, url, creation_date, today, html, metadata,
                   raised, stdout, stderr, exit_code, gets>>

\* print(markdown_header), and main returns.
PrintHeader ==
    /\ pc = "print"
    /\ stdout' = Append(stdout, header)
    /\ exit_code' = 0
    /\ pc' = "exited"
    /\ UNCHANGED <<season, year, result, url, creation_date, today, html, metadata,
                   raised, header, stderr, gets>>

Next == Validate \/ FetchOk \/ FetchFail \/ Extract \/ Format \/ PrintHeader

Spec == Init /\ [][Next]_vars

----------------------------------------------------------------------------
(* Claims about infer_edition_number, checked under SpecInfer *)

\* The season names of the specification, lower case, and the offset the
\* specification gives each of them.
ClaimSeasonOffset(name) ==
    CASE name = <<"w", "i", "n", "t", "e", "r">> -> 0
      [] name = <<"s", "p", "r", "i", "n", "g">> -> 1
      [] name = <<"s", "u", "m", "m", "e", "r">> -> 2
      [] name = <<"f", "a", "l", "l">> -> 3
      [] name = <<"a", "u", "t", "u", "m", "n">> -> 3
      [] OTHER -> 0 - 1

\* A recognized season: a string that is one of the five names in any case.
RecognizedSeason(s) == s.t = "str" /\ ClaimSeasonOffset(LowerStr(s.s)) >= 0

\* A year given as an integer or as a string of decimal digits, and its value.
NumericYear(y) == y.t = "int" \/ (y.t = "str" /\ IsDigitStr(y.s))
YearValue(y) == IF y.t = "int" THEN y.v ELSE DecValue(y.s)

\* A string that denotes a number: decimal digits, optionally signed,
\* optionally surrounded by whitespace.
DenotesNumber(s) ==
    \E i \in 1..Len(s) : \E j \in i..Len(s) :
        /\ \A k \in 1..(i - 1) : IsSpace(s[k])
        /\ \A k \in (j + 1)..Len(s) : IsSpace(s[k])
        /\ \/ \A k \in i..j : IsDigit(s[k])
           \/ s[i] \in {"-", "+"} /\ i < j /\ \A k \in (i + 1)..j : IsDigit(s[k])

\* What the specification's formula gives for a recognized season and a
\* numeric year.
ClaimEdition(s, y) ==
    79 + (YearValue(y) - 2025) * 4 + ClaimSeasonOffset(LowerStr(s.s))

\* C1: for every recognized season (any letter case) and every year given as
\* an integer or a numeric string, infer_edition_number returns exactly
\* 79 + (year - 2025) * 4 + offset.
C1_InferFormula ==
    (pc = "infer_done" /\ RecognizedSeason(season) /\ NumericYear(year))
        => result = PyInt(ClaimEdition(season, year))

\* The valid (season, year) pairs of the model, and the position of a pair
\* in publication order.
ValidPairs ==
    {s \in InferSeasons : RecognizedSeason(s)} \X {y \in InferYears : NumericYear(y)}
PairKey(s, y) == YearValue(y) * 4 + ClaimSeasonOffset(LowerStr(s.s))

\* C2: over valid (season, year) pairs infer_edition_number is strictly
\* increasing in year * 4 + offset, also before 2025, and (Winter, 2025)
\* maps to exactly 79.
C2_StrictlyIncreasing ==
    (pc = "infer_done" /\ RecognizedSeason(season) /\ NumericYear(year)) =>
        /\ \A q \in ValidPairs :
              PairKey(season, year) < PairKey(q[1], q[2]) =>
                 LET other == infer_edition_number(q[1], q[2])
                 IN  result.t = "int" /\ other.t = "int" /\ result.v < other.v
        /\ (LowerStr(season.s) = <<"w", "i", "n", "t", "e", "r">>
              /\ YearValue(year) = 2025) => result = PyInt(79)

\* The arguments for which the specification says the function fails.
BadSeason(s) ==
    s.t = "None" \/ (s.t = "str" /\ (s.s = <<>> \/ ~RecognizedSeason(s)))
BadYear(y) ==
    y.t = "None" \/ (y.t = "str" /\ (y.s = <<>> \/ ~DenotesNumber(y.s)))

\* C3: infer_edition_number returns None, and does not raise, whenever the
\* season is empty, missing or unrecognized, or the year is missing, empty or
\* non-numeric.
C3_InferAbsent ==
    (pc = "infer_done" /\ (BadSeason(season) \/ BadYear(year))) => result = PyNone

\* C3's case: a recognized season with a non-numeric year, answered None.
C3_Witness ==
    /\ pc = "infer_done"
    /\ RecognizedSeason(season)
    /\ year = PyStr(<<"2", "0", "x", "5">>)
    /\ result = PyNone

----------------------------------------------------------------------------
(* Claims about extract_metadata, checked under Spec: the document is the  *)
(* one the run fetched, metadata the mapping extract_metadata returned.    *)

\* extract_metadata has returned its mapping.
Extracted == pc \in {"format", "print"} \/ (pc = "exited" /\ exit_code = 0)

\* The strings of the document that hold an explicit
\* "No. <digits> (<season year>)".
ExplicitIssueAt(doc) == {i \in StringIndexes(doc) : IssueSearch(doc[i].text).ok}

\* C4: when the document holds an explicit "No. <digits> (<season year>)"
\* anywhere in its text, issue_number is exactly those digits and
\* issue_season the parenthesised text, whatever other "No. <digits>" or
\* season and year mentions stand before or after it.
C4_ExplicitIssueWins ==
    (Extracted /\ ExplicitIssueAt(html) # {}) =>
        \E i \in ExplicitIssueAt(html) :
            /\ HasValue(metadata, "issue_number")
            /\ HasValue(metadata, "issue_season")
            /\ metadata["issue_number"] = IssueSearch(html[i].text).g1
            /\ metadata["issue_season"] = IssueSearch(html[i].text).g2

\* C5: extract_metadata returns a mapping and never raises, whatever the
\* document: also for an empty structured-data block, one that is no JSON,
\* and JSON of an unexpected shape.
C5_ExtractNeverRaises == raised = ""

\* The structured-data blocks of the document that json.loads cannot parse.
MalformedBlocks(doc) ==
    {i \in 1..Len(doc) : /\ doc[i].tag = "script" /\ doc[i].type = "application/ld+json"
                         /\ doc[i].text # <<>> /\ doc[i].json.kind = "invalid"}

\* The document without its i-th element.
WithoutElement(doc, i) == SubSeq(doc, 1, i - 1) \o SubSeq(doc, i + 1, Len(doc))

\* C6: a malformed structured-data block is ignored: the mapping returned is
\* the one returned for the same document with that block removed.
C6_MalformedBlockIgnored ==
    Extracted =>
        \A i \in MalformedBlocks(html) :
            extract_metadata(WithoutElement(html, i)) = [raised |-> "", md |-> metadata]

\* C7: the mapping extract_metadata returns has publication equal to the
\* literal "The New Atlantis", whatever publisher the document names.
C7_PublicationFixed ==
    Extracted =>
        /\ "publication" \in DOMAIN metadata
        /\ metadata["publication"] = <<"T", "h", "e", " ", "N", "e", "w", " ", "A", "t", "l", "a", "n", "t", "i", "s">>

\* C7's case: a document whose structured data names another publisher.
C7_Witness ==
    /\ Extracted
    /\ \E i \in 1..Len(html) :
          /\ html[i].json.kind = "dict" /\ html[i].json.type = "Article"
          /\ html[i].json.publisher = JStr(<<"O", "t">>)
    /\ metadata["publication"] = <<"T", "h", "e", " ", "N", "e", "w", " ", "A", "t", "l", "a", "n", "t", "i", "s">>

----------------------------------------------------------------------------
(* Claims about the formatted header *)

\* The lines of a string: its pieces between line breaks.
RECURSIVE SplitLines(_)
SplitLines(s) ==
    LET nl == {i \in 1..Len(s) : s[i] = "\n"}
    IN  IF nl = {} THEN <<s>>
        ELSE <<SubSeq(s, 1, MinOf(nl) - 1)>> \o SplitLines(SubSeq(s, MinOf(nl) + 1, Len(s)))

\* The header holds text as whole lines: text starts a line and ends one.
HasLines(h, text) ==
    \E i \in 1..Len(h) :
        /\ StartsAt(h, i, text)
        /\ (i = 1 \/ h[i - 1] = "\n")
        /\ (i + Len(text) - 1 = Len(h) \/ h[i + Len(text)] = "\n")

\* The header has a line that begins with prefix.
HasLineStarting(h, prefix) ==
    \E i \in 1..Len(h) : StartsAt(h, i, prefix) /\ (i = 1 \/ h[i - 1] = "\n")

\* The lines of the author list: those between the "author:" line and the
\* "format: journal article" line.
AuthorLines(h) ==
    LET lines == SplitLines(h)
        a == {i \in 1..Len(lines) : lines[i] = <<"a", "u", "t", "h", "o", "r", ":">>}
        f == {i \in 1..Len(lines) : lines[i] = <<"f", "o", "r", "m", "a", "t", ":", " ", "j", "o", "u", "r", "n", "a", "l", " ", "a", "r", "t", "i", "c", "l", "e">> /\ a # {} /\ i > MinOf(a)}
    IN  IF a = {} \/ f = {} THEN <<>> ELSE SubSeq(lines, MinOf(a) + 1, MinOf(f) - 1)

\* C8: formatting the mapping extract_metadata returned puts a default in
\* place of each missing field: "title: Unknown Title" when no title was
\* found, the single line "  - Unknown Author" when no authors were found;
\* the author list of the header is never empty.
C8_DefaultsAfterExtract ==
    (pc = "print") =>
        /\ ~HasValue(metadata, "title") => HasLines(header, <<"t", "i", "t", "l", "e", ":", " ", "U", "n", "k", "n", "o", "w", "n", " ", "T", "i", "t", "l", "e">>)
        /\ ~HasValue(metadata, "authors") => AuthorLines(header) = <<<<" ", " ", "-", " ", "U", "n", "k", "n", "o", "w", "n", " ", "A", "u", "t", "h", "o", "r">>>>
        /\ AuthorLines(header) # <<>>

\* C9: the header of an empty mapping has "title: Unknown Title", exactly
\* one author line "  - Unknown Author", "publication: The New Atlantis",
\* and no periodical-edition line.
C9_EmptyMappingDefaults ==
    (pc = "format_done" /\ metadata = EmptyMap) =>
        /\ HasLines(header, <<"t", "i", "t", "l", "e", ":", " ", "U", "n", "k", "n", "o", "w", "n", " ", "T", "i", "t", "l", "e">>)
        /\ AuthorLines(header) = <<<<" ", " ", "-", " ", "U", "n", "k", "n", "o", "w", "n", " ", "A", "u", "t", "h", "o", "r">>>>
        /\ HasLines(header, <<"p", "u", "b", "l", "i", "c", "a", "t", "i", "o", "n", ":", " ", "T", "h", "e", " ", "N", "e", "w", " ", "A", "t", "l", "a", "n", "t", "i", "s">>)
        /\ ~HasLineStarting(header, <<"p", "e", "r", "i", "o", "d", "i", "c", "a", "l", "-", "e", "d", "i", "t", "i", "o", "n", ":", " ">>)

\* C9's case: the empty mapping was formatted.
C9_Witness == pc = "format_done" /\ metadata = EmptyMap /\ header # <<>>

\* The periodical-edition line for an issue number and a season.
EditionLine(number, issue_season) ==
    <<"p", "e", "r", "i", "o", "d", "i", "c", "a", "l", "-", "e", "d", "i", "t", "i", "o", "n", ":", " ", "N", "o", ".", " ">> \o number \o <<" ", "(">> \o issue_season \o <<")">>

\* C10: the header has a line "periodical-edition: No. <n> (<season>)" if
\* and only if the mapping has a non-empty issue_number and a non-empty
\* issue_season, and the line carries exactly those two values.
C10_EditionLineIffBoth ==
    (pc = "format_done") =>
        LET both == HasValue(metadata, "issue_number") /\ HasValue(metadata, "issue_season")
        IN  /\ HasLineStarting(header, <<"p", "e", "r", "i", "o", "d", "i", "c", "a", "l", "-", "e", "d", "i", "t", "i", "o", "n", ":", " ">>) <=> both
            /\ both => HasLines(header, EditionLine(metadata["issue_number"],
                                                    metadata["issue_season"]))

\* C10's case: a mapping with both values, and their line in the header.
C10_Witness ==
    /\ pc = "format_done"
    /\ HasValue(metadata, "issue_number") /\ HasValue(metadata, "issue_season")
    /\ HasLines(header, <<"p", "e", "r", "i", "o", "d", "i", "c", "a", "l", "-", "e", "d", "i", "t", "i", "o", "n", ":", " ", "N", "o", ".", " ", "7", "9", " ", "(", "W", "i", "n", "t", "e", "r", " ", "2", "0", "2", "5", ")">>)

----------------------------------------------------------------------------
(* Claims about the order of the header's lines, checked under SpecFormat *)

\* The authors the header lists: the mapping's list, the one default name
\* for a mapping without the key.
ListedAuthors(md) ==
    IF "authors" \in DOMAIN md THEN md["authors"] ELSE <<<<"U", "n", "k", "n", "o", "w", "n", " ", "A", "u", "t", "h", "o", "r">>>>

\* Whether the header is to carry a periodical-edition line.
EditionExpected(md) == HasValue(md, "issue_number") /\ HasValue(md, "issue_season")

\* C11: the lines of the formatted header occur in one fixed order: "---",
\* the title line, "author:", one "  - <name>" line per author in list
\* order, "format: journal article", the creation-date line, the publication
\* line, the optional periodical-edition line, "---", an empty line,
\* "## Notes"; no other line occurs, and an explicit creation date is
\* emitted verbatim.
C11_FixedLineOrder ==
    (pc = "format_done") =>
        LET lines == SplitLines(header)
            names == ListedAuthors(metadata)
            n     == Len(names)
            e     == IF EditionExpected(metadata) THEN 1 ELSE 0
        IN  /\ Len(lines) = 9 + n + e
            /\ lines[1] = <<"-", "-", "-">>
            /\ StartsAt(lines[2], 1, <<"t", "i", "t", "l", "e", ":", " ">>)
            /\ lines[3] = <<"a", "u", "t", "h", "o", "r", ":">>
            /\ \A i \in 1..n : lines[3 + i] = <<" ", " ", "-", " ">> \o names[i]
            /\ lines[4 + n] = <<"f", "o", "r", "m", "a", "t", ":", " ", "j", "o", "u", "r", "n", "a", "l", " ", "a", "r", "t", "i", "c", "l", "e">>
            /\ StartsAt(lines[5 + n], 1, <<"c", "r", "e", "a", "t", "i", "o", "n", "-", "d", "a", "t", "e", ":", " ">>)
            /\ creation_date.t = "str" =>
                  lines[5 + n] = <<"c", "r", "e", "a", "t", "i", "o", "n", "-", "d", "a", "t", "e", ":", " ">> \o creation_date.s
            /\ StartsAt(lines[6 + n], 1, <<"p", "u", "b", "l", "i", "c", "a", "t", "i", "o", "n", ":", " ">>)
            /\ (e = 1) => StartsAt(lines[7 + n], 1, <<"p", "e", "r", "i", "o", "d", "i", "c", "a", "l", "-", "e", "d", "i", "t", "i", "o", "n", ":", " ">>)
            /\ lines[7 + n + e] = <<"-", "-", "-">>
            /\ lines[8 + n + e] = <<>>
            /\ lines[9 + n + e] = <<"#", "#", " ", "N", "o", "t", "e", "s">>

----------------------------------------------------------------------------
(* Claims about a run of main(), checked under Spec *)

\* The error stream holds the message of a failed fetch.
FetchErrorWritten == \E i \in 1..Len(stderr) : stderr[i] = "Error fetching article"

\* The run ended with status 1 though no exception left extract_metadata:
\* it is the fetch that failed.
FetchFailedRun == pc = "exited" /\ exit_code = 1 /\ raised = ""

\* C12: a run issues exactly one GET; when it fails, the run writes an
\* "Error fetching article" message to the error stream and ends with
\* status 1, without a second GET, without running the extraction and
\* without writing a header to the standard output.
C12_FetchFailureEndsRun ==
    /\ gets <= 1
    /\ (pc \in {"extract", "format", "print", "exited"}) => gets = 1
    /\ FetchFailedRun => FetchErrorWritten
    /\ FetchErrorWritten =>
          /\ pc = "exited" /\ exit_code = 1
          /\ stderr[Len(stderr)] = "Error fetching article"
          /\ Cardinality({i \in 1..Len(stderr) : stderr[i] = "Error fetching article"}) = 1
          /\ metadata = EmptyMap /\ raised = "" /\ header = <<>>
          /\ stdout = <<>>

\* C12's case: a run whose one GET failed has ended with status 1, the
\* message on the error stream and nothing on the standard output.
C12_Witness ==
    /\ pc = "exited" /\ exit_code = 1 /\ gets = 1
    /\ FetchErrorWritten
    /\ stdout = <<>>

\* The host of a URL: its netloc without the user information before the
\* last "@" and without the port after ":".
UrlHost(u) ==
    LET net   == Netloc(u)
        ats   == {i \in 1..Len(net) : net[i] = "@"}
        from  == IF ats = {} THEN 1 ELSE (CHOOSE i \in ats : \A j \in ats : i >= j) + 1
        ports == {i \in from..Len(net) : net[i] = ":"}
        to    == IF ports = {} THEN Len(net) ELSE MinOf(ports) - 1
    IN  SubSeq(net, from, to)

\* The host of the URL does not contain "thenewatlantis.com".
ForeignHost(u) ==
    ~(\E i \in 1..Len(UrlHost(u)) : StartsAt(UrlHost(u), i, <<"t", "h", "e", "n", "e", "w", "a", "t", "l", "a", "n", "t", "i", "s", ".", "c", "o", "m">>))

\* C13: in a run whose URL host does not contain "thenewatlantis.com" a
\* warning is on the error stream before the fetch, and the run goes on: when
\* the fetch succeeds the run ends with status zero and the formatted header
\* of the fetched document printed exactly once, as for any other URL.
C13_ForeignHostProceeds ==
    ForeignHost(url) =>
        /\ (pc # "validate") => (stderr # <<>> /\ stderr[1] = "Warning")
        /\ (pc = "exited" /\ ~FetchErrorWritten) =>
              /\ exit_code = 0
              /\ stdout = <<format_markdown_header(extract_metadata(html).md,
                                                   creation_date, today)>>

----------------------------------------------------------------------------
(* Claims about the issue fields, the title and the authors that           *)
(* extract_metadata returns, checked under Spec                            *)

\* The bare season and year mentions of the document: the string, the word
\* order (1 for "Winter 2025", 2 for "2025 Winter") and the position.
SeasonMentions(doc) ==
    {m \in StringIndexes(doc) \X (1..2) \X (1..12) :
        m[3] <= Len(doc[m[1]].text) /\ SeasonPatternAt(m[2], doc[m[1]].text, m[3]).ok}

\* The season word and the year of a mention.
MentionSeason(doc, m) ==
    LET match == SeasonPatternAt(m[2], doc[m[1]].text, m[3])
    IN  IF m[2] = 1 THEN match.g1 ELSE match.g2
MentionYear(doc, m) ==
    LET match == SeasonPatternAt(m[2], doc[m[1]].text, m[3])
    IN  IF m[2] = 1 THEN match.g2 ELSE match.g1

\* C14: when the document holds no explicit "No. <digits> (...)" and its
\* text has a bare season and year mention, in either word order, the
\* mapping has issue_number equal to the decimal string of
\* infer_edition_number(season, year) and issue_season equal to
\* "<season> <year>", season first, for a mention of the document.
C14_BareSeasonInferred ==
    (Extracted /\ ExplicitIssueAt(html) = {} /\ SeasonMentions(html) # {}) =>
        \E m \in SeasonMentions(html) :
            LET se == MentionSeason(html, m)
                yr == MentionYear(html, m)
                number == infer_edition_number(PyStr(se), PyInt(DecValue(yr)))
            IN  /\ number.t = "int"
                /\ "issue_number" \in DOMAIN metadata
                /\ "issue_season" \in DOMAIN metadata
                /\ metadata["issue_number"] = IntToStr(number.v)
                /\ metadata["issue_season"] = se \o <<" ">> \o yr

\* The structured-data Article block of the document: the first
\* "application/ld+json" script holding an object of type Article, 0 for
\* none.
ArticleBlockAt(doc) ==
    LET at == {i \in 1..Len(doc) : /\ doc[i].tag = "script"
                                   /\ doc[i].type = "application/ld+json"
                                   /\ doc[i].json.kind = "dict"
                                   /\ doc[i].json.type = "Article"}
    IN  IF at = {} THEN 0 ELSE MinOf(at)

\* The headline of the Article block, trimmed; "" without a block or a
\* headline.
ArticleHeadline(doc) ==
    LET a == ArticleBlockAt(doc)
    IN  IF a # 0 /\ doc[a].json.headline.k = "str"
        THEN StripStr(doc[a].json.headline.s) ELSE <<>>

\* The first element of the document with the given tag, 0 for none.
FirstWithTag(doc, tag) ==
    IF \E i \in 1..Len(doc) : doc[i].tag = tag
    THEN CHOOSE i \in 1..Len(doc) :
            doc[i].tag = tag /\ \A j \in 1..(i - 1) : doc[j].tag # tag
    ELSE 0

\* The title by the stated priority: the headline when it is not empty,
\* else the text of the first h1 when there is one, else the text of the
\* title element, else none ("").
TitleByPriority(doc) ==
    IF ArticleHeadline(doc) # <<>> THEN ArticleHeadline(doc)
    ELSE IF FirstWithTag(doc, "h1") # 0 THEN StripStr(doc[FirstWithTag(doc, "h1")].text)
    ELSE IF FirstWithTag(doc, "title") # 0 THEN StripStr(doc[FirstWithTag(doc, "title")].text)
    ELSE <<>>

\* C15: the title extract_metadata returns follows a strict priority: the
\* headline of the structured-data Article block when it is not empty, else
\* the text of the first h1 element when one exists, else the text of the
\* title element, and no title when there is none of the three; a lower
\* tier never replaces a non-empty result of a higher one.
C15_TitlePriority ==
    Extracted =>
        /\ GetOr(metadata, "title", <<>>) = TitleByPriority(html)
        /\ (/\ ArticleHeadline(html) = <<>>
            /\ FirstWithTag(html, "h1") = 0
            /\ FirstWithTag(html, "title") = 0) => ~HasValue(metadata, "title")

\* C15's case: a document with a headline in its Article block and an h1 (or
\* a title element) with another text; the title is the headline.
C15_Witness ==
    /\ Extracted
    /\ ArticleHeadline(html) = <<"T", "i">>
    /\ \E i \in 1..Len(html) : html[i].tag \in {"h1", "title"} /\ html[i].text # <<>>
    /\ metadata["title"] = <<"T", "i">>

\* The author names the structured data yields: the non-empty names of the
\* Article block's authors, none without a block.
StructuredAuthors(doc) ==
    IF ArticleBlockAt(doc) = 0 THEN <<>>
    ELSE AuthorNames(doc[ArticleBlockAt(doc)].json.author.items).names

\* The byline element: the first element whose class holds "author" or
\* "byline" in any letter case, 0 for none.
BylineAt(doc) ==
    LET at == {i \in 1..Len(doc) : ClassMatches(doc[i].class)}
    IN  IF at = {} THEN 0 ELSE MinOf(at)

\* s without a leading "By" or "Author:" (any letter case, the colon
\* optional) that stands as a word of its own, and without the whitespace
\* after it.
WithoutBylinePrefix(s) ==
    LET ends(i) == i > Len(s) \/ IsSpace(s[i])
        after == IF StartsAtI(s, 1, <<"b", "y">>) /\ ends(3) THEN 3
                 ELSE IF StartsAtI(s, 1, <<"a", "u", "t", "h", "o", "r", ":">>) THEN 8
                 ELSE IF StartsAtI(s, 1, <<"a", "u", "t", "h", "o", "r">>) /\ ends(7) THEN 7
                 ELSE 0
    IN  IF after = 0 THEN s ELSE SubSeq(s, SkipSpaces(s, after), Len(s))

\* No two whitespace characters in a row.
NoWhitespaceRun(s) == \A i \in 1..(Len(s) - 1) : ~(IsSpace(s[i]) /\ IsSpace(s[i + 1]))

\* C16: the byline is consulted only when the structured data yielded no
\* authors; then the authors list is exactly one string, the byline
\* element's text without a leading "By" or "Author:" (any letter case) and
\* with every run of whitespace collapsed to one space, the author's name
\* itself kept whole; names taken from structured data have no run of two
\* or more whitespace characters either.
C16_BylineAuthors ==
    Extracted =>
        /\ StructuredAuthors(html) # <<>> => metadata["authors"] = StructuredAuthors(html)
        /\ (StructuredAuthors(html) = <<>> /\ BylineAt(html) # 0) =>
              metadata["authors"] =
                  <<CollapseSpaces(WithoutBylinePrefix(StripStr(html[BylineAt(html)].text)))>>
        /\ "authors" \in DOMAIN metadata =>
              \A i \in 1..Len(metadata["authors"]) : NoWhitespaceRun(metadata["authors"][i])

====
